---- MODULE Spec2Model ----
(***************************************************************************)
(* Model of crossbar/router/router.py: the Router (message dispatch and    *)
(* attach/detach accounting) and the RouterFactory (realm -> Router        *)
(* registry with create-on-first-get and delete-on-last-detach).           *)
(*                                                                         *)
(* Router instances are identified by their index in the sequence          *)
(* `routers` (object identity); the factory's dict `_routers` is the       *)
(* function `registry` whose DOMAIN is the set of keys.                    *)
(***************************************************************************)
EXTENDS Integers, Sequences, FiniteSets, TLC

\* ---------------------------------------------------------------- bounds
NumSessions == 3
MaxRouters == 3
NumClients == 2
NumThreads == 2
MaxLog == 2

Realms == {"realm1", "realm2"}
\* sessions of the lifecycle specifications
Sessions == 1 .. NumSessions
\* sessions that also send messages (SpecDispatch)
Clients == 1 .. NumClients
\* sessions served by their own thread (SpecThreads)
Threads == 1 .. NumThreads

\* inputs of the authorize and validate hooks
Uris == {"com.example.a", "com.example.b"}
AuthActions == {"call", "publish", "subscribe", "register"}
PayloadTypes == {"event", "call_result"}
PayloadArgs == {<<>>, <<1>>}
PayloadKwargs == {"none", "nonempty"}

\* ---------------------------------------------------------------- messages
\* Classes of autobahn.wamp.message the router dispatches on, and some it
\* does not.
SupportedKinds ==
  {"Publish", "Subscribe", "Unsubscribe", "Register", "Unregister",
   "Call", "Cancel", "Yield"}
OtherKinds == {"Hello", "Event", "Result", "Invocation"}
RequestTypes == {"Invocation", "Call"}

\* message.Invocation.MESSAGE_TYPE, the request_type the Error branch tests.
InvocationMessageType == "Invocation"

\* A decoded message: its class, and for Error the request_type field.
Messages ==
  [kind : SupportedKinds \cup OtherKinds, request_type : {"n/a"}]
    \cup [kind : {"Error"}, request_type : RequestTypes]

NoMsg == [kind |-> "none", request_type |-> "n/a"]

VARIABLES
  routers,    \* Seq of Router objects: [realm, attached, broker, dealer]
  registry,   \* RouterFactory._routers: realm -> index into routers
  sess,       \* per session/thread: [pc, router, realm, tmp]
  hist,       \* per Router: calls seen so far [att, det, last, mixed]
  lastGot,    \* realm -> Router returned by get since the last onLastDetach
  lastOp,     \* the operation performed by the latest step and its outcome
  log         \* process calls made and handler invocations received, in order

vars == <<routers, registry, sess, hist, lastGot, lastOp, log>>

\* ---------------------------------------------------------------- Broker / Dealer
\* The collaborators keep the set of sessions registered with them.
CollabAttach(set, session) == set \cup {session}
CollabDetach(set, session) == set \ {session}

\* ---------------------------------------------------------------- Router
\* Router.__init__: fresh broker and dealer, _attached = 0.
RouterInit(realm) ==
  [realm |-> realm, attached |-> 0, broker |-> {}, dealer |-> {}]

\* Variant of Router.attach that registers the session but leaves the
\* attached count alone.
RouterAttachNoCount(rt, session) ==
  [rt EXCEPT !.broker = CollabAttach(@, session),
             !.dealer = CollabAttach(@, session)]

\* Router.attach: broker.attach, dealer.attach, _attached += 1.
RouterAttach(rt, session) ==
  [rt EXCEPT !.broker = CollabAttach(@, session),
             !.dealer = CollabAttach(@, session),
             !.attached = @ + 1]

\* Variant of Router.detach that does not detach the session from the dealer.
RouterDetachKeepsDealer(rt, session) ==
  [rt EXCEPT !.broker = CollabDetach(@, session),
             !.attached = @ - 1]

\* The part of Router.detach before the zero test.
RouterDetach(rt, session) ==
  [rt EXCEPT !.broker = CollabDetach(@, session),
             !.dealer = CollabDetach(@, session),
             !.attached = @ - 1]

\* Variant of the zero test that looks at the count as it was before the
\* decrement.
IsLastDetachBeforeDecrement(rt) == rt.attached + 1 = 0

\* Variant of the zero test without the `not`.
IsLastDetachInverted(rt) == rt.attached # 0

\* `if not self._attached`
IsLastDetach(rt) == rt.attached = 0

\* Variant of the chain whose Error branch does not look at request_type.
DispatchAnyError(msg) ==
  IF msg.kind = "Publish" THEN "Broker.processPublish"
  ELSE IF msg.kind = "Subscribe" THEN "Broker.processSubscribe"
  ELSE IF msg.kind = "Unsubscribe" THEN "Broker.processUnsubscribe"
  ELSE IF msg.kind = "Register" THEN "Dealer.processRegister"
  ELSE IF msg.kind = "Unregister" THEN "Dealer.processUnregister"
  ELSE IF msg.kind = "Call" THEN "Dealer.processCall"
  ELSE IF msg.kind = "Cancel" THEN "Dealer.processCancel"
  ELSE IF msg.kind = "Yield" THEN "Dealer.processYield"
  ELSE IF msg.kind = "Error" THEN "Dealer.processInvocationError"
  ELSE "ProtocolError"

\* The if/elif chain of Router.process: the handler the message goes to, or
\* "ProtocolError" for the else branch.
Dispatch(msg) ==
  IF msg.kind = "Publish" THEN "Broker.processPublish"
  ELSE IF msg.kind = "Subscribe" THEN "Broker.processSubscribe"
  ELSE IF msg.kind = "Unsubscribe" THEN "Broker.processUnsubscribe"
  ELSE IF msg.kind = "Register" THEN "Dealer.processRegister"
  ELSE IF msg.kind = "Unregister" THEN "Dealer.processUnregister"
  ELSE IF msg.kind = "Call" THEN "Dealer.processCall"
  ELSE IF msg.kind = "Cancel" THEN "Dealer.processCancel"
  ELSE IF msg.kind = "Yield" THEN "Dealer.processYield"
  ELSE IF msg.kind = "Error" /\ msg.request_type = InvocationMessageType
    THEN "Dealer.processInvocationError"
  ELSE "ProtocolError"

\* Variant of Router.process that forwards a dispatched message twice.
ProcessCallsTwice(session, msg) ==
  IF Dispatch(msg) = "ProtocolError" THEN <<>>
  ELSE <<[handler |-> Dispatch(msg), session |-> session, msg |-> msg],
         [handler |-> Dispatch(msg), session |-> session, msg |-> msg]>>

\* The handler invocations one Router.process call makes.
ProcessCalls(session, msg) ==
  IF Dispatch(msg) = "ProtocolError" THEN <<>>
  ELSE <<[handler |-> Dispatch(msg), session |-> session, msg |-> msg]>>

\* Variant of Router.process that counts the sender as attached.
ProcessEffectCounting(rt, session, msg) == [rt EXCEPT !.attached = @ + 1]

\* Router.process assigns no field of the Router: the Router after the call.
ProcessEffect(rt, session, msg) == rt

\* Variant of Router.authorize that grants calls only.
AuthorizeCallOnly(session, uri, action) == action = "call"

\* Router.authorize: `return True`.
Authorize(session, uri, action) == TRUE

\* Router.validate: falls off the end of the method (returns None), raises
\* nothing.
Validate(payload_type, uri, args, kwargs) == "None"

\* ---------------------------------------------------------------- RouterFactory
\* Variant of the membership test that never finds the realm.
InRegistryNever(reg, realm) == realm \in DOMAIN reg \ Realms

\* `realm in self._routers`
InRegistry(reg, realm) == realm \in DOMAIN reg

\* `self._routers[realm] = <router id>`
RegistryPut(reg, realm, id) ==
  [r \in DOMAIN reg \cup {realm} |-> IF r = realm THEN id ELSE reg[r]]

\* Variant of the deletion that empties the registry.
RegistryDelAll(reg, realm) == [r \in {} |-> reg[r]]

\* Variant of the deletion that leaves the entry in place.
RegistryDelNothing(reg, realm) == reg

\* `del self._routers[realm]`
RegistryDel(reg, realm) == [r \in DOMAIN reg \ {realm} |-> reg[r]]

\* `assert(router.realm in self._routers)`
OnLastDetachOk(reg, rt) == InRegistry(reg, rt.realm)

\* RouterFactory.onLastDetach: the registry it leaves.
OnLastDetach(reg, rt) ==
  IF OnLastDetachOk(reg, rt) THEN RegistryDel(reg, rt.realm) ELSE reg

\* ---------------------------------------------------------------- history
HistInit == [att |-> 0, det |-> 0, last |-> 0, mixed |-> FALSE]

Op(op, s, r, realm, msg, calls, error, notified, created) ==
  [op |-> op, session |-> s, router |-> r, realm |-> realm, msg |-> msg,
   calls |-> calls, error |-> error, notified |-> notified,
   created |-> created, result |-> "none"]

\* ---------------------------------------------------------------- initial state
\* RouterFactory.__init__: empty registry; no Router exists yet.
Init ==
  /\ routers = <<>>
  /\ registry = <<>>
  /\ sess = [s \in Sessions |->
               [pc |-> "idle", router |-> 0, realm |-> "none", tmp |-> 0]]
  /\ hist = <<>>
  /\ lastGot = [r \in Realms |-> 0]
  /\ lastOp = Op("init", 0, 0, "none", NoMsg, <<>>, "none", FALSE, FALSE)
  /\ log = [sent |-> <<>>, handled |-> <<>>]

\* ---------------------------------------------------------------- handlers run
\* to completion (single-threaded event-driven host)

\* RouterFactory.get(realm), called on behalf of session s.
Get(s, realm) ==
  /\ sess[s].pc \in {"idle", "got"}
  /\ LET create == ~InRegistry(registry, realm)
         id == Len(routers) + 1
     IN /\ create => Len(routers) < MaxRouters
        /\ routers' = IF create THEN Append(routers, RouterInit(realm))
                      ELSE routers
        /\ hist' = IF create THEN Append(hist, HistInit) ELSE hist
        /\ registry' = IF create THEN RegistryPut(registry, realm, id)
                       ELSE registry
        /\ sess' = [sess EXCEPT ![s] = [pc |-> "got",
                                        router |-> registry'[realm],
                                        realm |-> realm, tmp |-> 0]]
        /\ lastGot' = [lastGot EXCEPT ![realm] = registry'[realm]]
        /\ lastOp' = Op("get", s, registry'[realm], realm, NoMsg, <<>>,
                        "none", FALSE, create)
  /\ UNCHANGED log

\* Router.attach(session) on the Router the session got.
Attach(s) ==
  /\ sess[s].pc = "got"
  /\ LET r == sess[s].router IN
     /\ routers' = [routers EXCEPT ![r] = RouterAttach(@, s)]
     /\ hist' = [hist EXCEPT ![r].att = @ + 1,
                             ![r].mixed = @ \/ hist[r].det > 0]
     /\ sess' = [sess EXCEPT ![s].pc = "attached"]
     /\ lastOp' = Op("attach", s, r, routers[r].realm, NoMsg, <<>>,
                     "none", FALSE, FALSE)
     /\ UNCHANGED <<registry, lastGot, log>>

\* Router.detach(session), including the onLastDetach call it may make.
Detach(s) ==
  /\ sess[s].pc = "attached"
  /\ LET r == sess[s].router
         rt == RouterDetach(routers[r], s)
         last == IsLastDetach(rt)
         failed == last /\ ~OnLastDetachOk(registry, rt)
     IN /\ routers' = [routers EXCEPT ![r] = rt]
        /\ registry' = IF last THEN OnLastDetach(registry, rt) ELSE registry
        /\ hist' = [hist EXCEPT ![r].det = @ + 1,
                                ![r].last = IF last THEN @ + 1 ELSE @]
        /\ lastGot' = IF last THEN [lastGot EXCEPT ![rt.realm] = 0]
                      ELSE lastGot
        /\ sess' = [sess EXCEPT ![s].pc = "done"]
        /\ lastOp' = Op("detach", s, r, rt.realm, NoMsg, <<>>,
                        IF failed THEN "AssertionError" ELSE "none",
                        last, FALSE)
  /\ UNCHANGED log

\* Router.process(session, msg) on the session's Router: the Router's own
\* fields after the call, the handler invocations and the outcome.
RouterProcess(s, msg) ==
  /\ sess[s].pc \in {"got", "attached", "done"}
  /\ routers' = [routers EXCEPT ![sess[s].router] = ProcessEffect(@, s, msg)]
  /\ lastOp' = Op("process", s, sess[s].router, routers[sess[s].router].realm,
                  msg, ProcessCalls(s, msg),
                  IF Dispatch(msg) = "ProtocolError" THEN "ProtocolError"
                  ELSE "none",
                  FALSE, FALSE)
  /\ UNCHANGED <<registry, sess, hist, lastGot>>

Process(s, msg) ==
  /\ RouterProcess(s, msg)
  /\ UNCHANGED log

\* Router.process(session, msg), with the call and the handler invocations it
\* makes before it returns appended to the log.
ProcessLogged(s, msg) ==
  /\ Len(log.sent) < MaxLog
  /\ RouterProcess(s, msg)
  /\ log' = [sent |-> Append(log.sent, [session |-> s, msg |-> msg]),
             handled |-> log.handled \o ProcessCalls(s, msg)]

\* Router.authorize(session, uri, action) on the session's Router.
AuthorizeCall(s, uri, action) ==
  /\ sess[s].pc \in {"got", "attached", "done"}
  /\ lastOp' = [Op("authorize", s, sess[s].router,
                   routers[sess[s].router].realm, NoMsg, <<>>, "none",
                   FALSE, FALSE)
                EXCEPT !.result = IF Authorize(s, uri, action)
                                  THEN "True" ELSE "False"]
  /\ UNCHANGED <<routers, registry, sess, hist, lastGot, log>>

\* Router.validate(payload_type, uri, args, kwargs) on the session's Router.
ValidateCall(s, payload_type, uri, args, kwargs) ==
  /\ sess[s].pc \in {"got", "attached", "done"}
  /\ lastOp' = [Op("validate", s, sess[s].router,
                   routers[sess[s].router].realm, NoMsg, <<>>, "none",
                   FALSE, FALSE)
                EXCEPT !.result = Validate(payload_type, uri, args, kwargs)]
  /\ UNCHANGED <<routers, registry, sess, hist, lastGot, log>>

\* Router.detach(session) by a session that is not attached to the Router
\* (caller contract violation).  Whether the collaborators object to the
\* unknown session is not decided by router.py: both outcomes are possible.
OverDetach(s, r) ==
  /\ sess[s].pc \in {"idle", "done"}
  /\ r \in 1 .. Len(routers)
  /\ s \notin routers[r].broker
  /\ \E collabRaises \in BOOLEAN :
       LET rt == RouterDetach(routers[r], s)
           last == IsLastDetach(rt)
           failed == last /\ ~OnLastDetachOk(registry, rt)
       IN IF collabRaises
          THEN /\ lastOp' = Op("detach", s, r, routers[r].realm, NoMsg, <<>>,
                               "CollaboratorError", FALSE, FALSE)
               /\ UNCHANGED <<routers, registry, hist, lastGot>>
          ELSE /\ routers' = [routers EXCEPT ![r] = rt]
               /\ registry' = IF last THEN OnLastDetach(registry, rt)
                              ELSE registry
               /\ hist' = [hist EXCEPT ![r].det = @ + 1,
                                       ![r].last = IF last THEN @ + 1 ELSE @]
               /\ lastGot' = IF last THEN [lastGot EXCEPT ![rt.realm] = 0]
                             ELSE lastGot
               /\ lastOp' = Op("detach", s, r, rt.realm, NoMsg, <<>>,
                               IF failed THEN "AssertionError" ELSE "none",
                               last, FALSE)
  /\ sess' = [sess EXCEPT ![s].pc = "misused"]
  /\ UNCHANGED log

\* ---------------------------------------------------------------- handlers as
\* interleavable steps (multi-threaded host, no lock in router.py).  Each
\* thread t serves one session: get, attach, detach.  sess[t].pc is the next
\* statement of the thread, sess[t].tmp the value it loaded from _attached.

Goto(t, pc) == [sess EXCEPT ![t].pc = pc]

\* get, line 167: `if not realm in self._routers`
GetTest(t, realm) ==
  /\ sess[t].pc = "idle"
  /\ sess' = [sess EXCEPT ![t].realm = realm,
                          ![t].pc = IF InRegistry(registry, realm)
                                    THEN "g_return" ELSE "g_create"]
  /\ UNCHANGED <<routers, registry, hist, lastGot, lastOp, log>>

\* get, line 168: construct the Router and store it under the realm
GetCreate(t) ==
  /\ sess[t].pc = "g_create"
  /\ Len(routers) < MaxRouters
  /\ routers' = Append(routers, RouterInit(sess[t].realm))
  /\ hist' = Append(hist, HistInit)
  /\ registry' = RegistryPut(registry, sess[t].realm, Len(routers) + 1)
  /\ sess' = Goto(t, "g_return")
  /\ UNCHANGED <<lastGot, lastOp, log>>

\* get, line 171: `return self._routers[realm]` (KeyError when the entry is
\* gone by now)
GetReturn(t) ==
  /\ sess[t].pc = "g_return"
  /\ IF InRegistry(registry, sess[t].realm)
     THEN sess' = [sess EXCEPT ![t].router = registry[sess[t].realm],
                               ![t].pc = "got"]
     ELSE sess' = Goto(t, "raised")
  /\ UNCHANGED <<routers, registry, hist, lastGot, lastOp, log>>

\* attach, line 57
AttachBroker(t) ==
  /\ sess[t].pc = "got"
  /\ routers' = [routers EXCEPT ![sess[t].router].broker = CollabAttach(@, t)]
  /\ hist' = [hist EXCEPT ![sess[t].router].att = @ + 1]
  /\ sess' = Goto(t, "a_dealer")
  /\ UNCHANGED <<registry, lastGot, lastOp, log>>

\* attach, line 58
AttachDealer(t) ==
  /\ sess[t].pc = "a_dealer"
  /\ routers' = [routers EXCEPT ![sess[t].router].dealer = CollabAttach(@, t)]
  /\ sess' = Goto(t, "a_load")
  /\ UNCHANGED <<registry, hist, lastGot, lastOp, log>>

\* attach, line 59: `self._attached += 1`, the load
AttachLoad(t) ==
  /\ sess[t].pc = "a_load"
  /\ sess' = [sess EXCEPT ![t].tmp = routers[sess[t].router].attached,
                          ![t].pc = "a_store"]
  /\ UNCHANGED <<routers, registry, hist, lastGot, lastOp, log>>

\* attach, line 59: `self._attached += 1`, the store
AttachStore(t) ==
  /\ sess[t].pc = "a_store"
  /\ routers' = [routers EXCEPT ![sess[t].router].attached = sess[t].tmp + 1]
  /\ sess' = [sess EXCEPT ![t].tmp = 0, ![t].pc = "attached"]
  /\ UNCHANGED <<registry, hist, lastGot, lastOp, log>>

\* detach, line 68
DetachBroker(t) ==
  /\ sess[t].pc = "attached"
  /\ routers' = [routers EXCEPT ![sess[t].router].broker = CollabDetach(@, t)]
  /\ hist' = [hist EXCEPT ![sess[t].router].det = @ + 1]
  /\ sess' = Goto(t, "d_dealer")
  /\ UNCHANGED <<registry, lastGot, lastOp, log>>

\* detach, line 69
DetachDealer(t) ==
  /\ sess[t].pc = "d_dealer"
  /\ routers' = [routers EXCEPT ![sess[t].router].dealer = CollabDetach(@, t)]
  /\ sess' = Goto(t, "d_load")
  /\ UNCHANGED <<registry, hist, lastGot, lastOp, log>>

\* detach, line 70: `self._attached -= 1`, the load
DetachLoad(t) ==
  /\ sess[t].pc = "d_load"
  /\ sess' = [sess EXCEPT ![t].tmp = routers[sess[t].router].attached,
                          ![t].pc = "d_store"]
  /\ UNCHANGED <<routers, registry, hist, lastGot, lastOp, log>>

\* detach, line 70: `self._attached -= 1`, the store
DetachStore(t) ==
  /\ sess[t].pc = "d_store"
  /\ routers' = [routers EXCEPT ![sess[t].router].attached = sess[t].tmp - 1]
  /\ sess' = [sess EXCEPT ![t].tmp = 0, ![t].pc = "d_test"]
  /\ UNCHANGED <<registry, hist, lastGot, lastOp, log>>

\* detach, lines 71-72: `if not self._attached`, and the call of onLastDetach
DetachTest(t) ==
  /\ sess[t].pc = "d_test"
  /\ IF IsLastDetach(routers[sess[t].router])
     THEN /\ sess' = Goto(t, "d_notify")
          /\ hist' = [hist EXCEPT ![sess[t].router].last = @ + 1]
     ELSE /\ sess' = Goto(t, "done")
          /\ UNCHANGED hist
  /\ UNCHANGED <<routers, registry, lastGot, lastOp, log>>

\* onLastDetach, lines 175-176, run by the detaching thread
DetachNotify(t) ==
  /\ sess[t].pc = "d_notify"
  /\ registry' = OnLastDetach(registry, routers[sess[t].router])
  /\ sess' = Goto(t, IF OnLastDetachOk(registry, routers[sess[t].router])
                     THEN "done" ELSE "raised")
  /\ UNCHANGED <<routers, hist, lastGot, lastOp, log>>

\* ---------------------------------------------------------------- specifications
\* Lifecycle: every handler runs to completion; get and attach of a session
\* are separate calls.
Next ==
  \/ \E s \in Sessions, realm \in Realms : Get(s, realm)
  \/ \E s \in Sessions : Attach(s)
  \/ \E s \in Sessions : Detach(s)

Spec == Init /\ [][Next]_vars

\* Lifecycle and message processing.
NextDispatch ==
  \/ \E s \in Clients, realm \in Realms : Get(s, realm)
  \/ \E s \in Clients : Attach(s)
  \/ \E s \in Clients : Detach(s)
  \/ \E s \in Clients, msg \in Messages : Process(s, msg)

SpecDispatch == Init /\ [][NextDispatch]_vars

\* Messages sent in SpecHooks: dispatched ones and rejected ones.
HookMessages == {m \in Messages : m.kind \in {"Publish", "Call", "Error", "Hello"}}

\* Lifecycle, message processing and the policy hooks.
NextHooks ==
  \/ \E s \in Clients, realm \in Realms : Get(s, realm)
  \/ \E s \in Clients : Attach(s)
  \/ \E s \in Clients : Detach(s)
  \/ \E s \in Clients, msg \in HookMessages : Process(s, msg)
  \/ \E s \in Clients, uri \in Uris, action \in AuthActions :
       AuthorizeCall(s, uri, action)
  \/ \E s \in Clients, pt \in PayloadTypes, uri \in Uris,
        args \in PayloadArgs, kwargs \in PayloadKwargs :
       ValidateCall(s, pt, uri, args, kwargs)

SpecHooks == Init /\ [][NextHooks]_vars

\* Messages sent in SpecOrder: two dispatched classes and a rejected one.
OrderMessages == {m \in Messages : m.kind \in {"Publish", "Call", "Hello"}}

\* Sessions that get a Router and send it messages, in any interleaving.
NextOrder ==
  \/ \E s \in Clients, realm \in Realms : Get(s, realm)
  \/ \E s \in Clients, msg \in OrderMessages : ProcessLogged(s, msg)

SpecOrder == Init /\ [][NextOrder]_vars

\* Lifecycle with callers that break the attach/detach contract.
NextMisuse ==
  \/ \E s \in Sessions, realm \in Realms : Get(s, realm)
  \/ \E s \in Sessions : Attach(s)
  \/ \E s \in Sessions : Detach(s)
  \/ \E s \in Sessions, r \in 1 .. MaxRouters : OverDetach(s, r)

SpecMisuse == Init /\ [][NextMisuse]_vars

\* Multi-threaded host: the statements of get, attach and detach interleave.
NextThreads ==
  \/ \E t \in Threads, realm \in Realms : GetTest(t, realm)
  \/ \E t \in Threads : GetCreate(t)
  \/ \E t \in Threads : GetReturn(t)
  \/ \E t \in Threads : AttachBroker(t)
  \/ \E t \in Threads : AttachDealer(t)
  \/ \E t \in Threads : AttachLoad(t)
  \/ \E t \in Threads : AttachStore(t)
  \/ \E t \in Threads : DetachBroker(t)
  \/ \E t \in Threads : DetachDealer(t)
  \/ \E t \in Threads : DetachLoad(t)
  \/ \E t \in Threads : DetachStore(t)
  \/ \E t \in Threads : DetachTest(t)
  \/ \E t \in Threads : DetachNotify(t)

SpecThreads == Init /\ [][NextThreads]_vars

\* ---------------------------------------------------------------- helpers of the properties
RouterIds == 1 .. Len(routers)

\* The Router is the one the registry holds for its realm.
Registered(r) ==
  /\ routers[r].realm \in DOMAIN registry
  /\ registry[routers[r].realm] = r

\* Sessions that have completed attach on Router r and not yet called detach.
AttachedSessions(r) ==
  {s \in Sessions : sess[s].pc = "attached" /\ sess[s].router = r}

\* The dispatch table of Router.process as the specification lists it.
TableKinds ==
  {"Publish", "Subscribe", "Unsubscribe", "Register", "Unregister", "Call",
   "Cancel", "Yield", "Error"}

TableHandler ==
  [k \in TableKinds |->
     CASE k = "Publish" -> "Broker.processPublish"
       [] k = "Subscribe" -> "Broker.processSubscribe"
       [] k = "Unsubscribe" -> "Broker.processUnsubscribe"
       [] k = "Register" -> "Dealer.processRegister"
       [] k = "Unregister" -> "Dealer.processUnregister"
       [] k = "Call" -> "Dealer.processCall"
       [] k = "Cancel" -> "Dealer.processCancel"
       [] k = "Yield" -> "Dealer.processYield"
       [] k = "Error" -> "Dealer.processInvocationError"]

TableSupports(msg) ==
  /\ msg.kind \in TableKinds
  /\ msg.kind = "Error" => msg.request_type = "Invocation"

\* ---------------------------------------------------------------- C1
\* C1: one Router.process(session, m) call invokes exactly the one handler
\* the dispatch table assigns to m, once, with the same session and message;
\* for every other message it fails with ProtocolError and invokes no handler.
C1_DispatchTable ==
  lastOp.op = "process" =>
    IF TableSupports(lastOp.msg)
    THEN /\ lastOp.calls = <<[handler |-> TableHandler[lastOp.msg.kind],
                              session |-> lastOp.session,
                              msg |-> lastOp.msg]>>
         /\ lastOp.error = "none"
    ELSE /\ lastOp.calls = <<>>
         /\ lastOp.error = "ProtocolError"

\* An Error message whose request_type is not Invocation was rejected.
C1_Witness ==
  /\ lastOp.op = "process"
  /\ lastOp.msg.kind = "Error"
  /\ lastOp.msg.request_type = "Call"
  /\ lastOp.error = "ProtocolError"

\* ---------------------------------------------------------------- C2
\* C2: on a Router that saw k >= 1 attach calls and then only detach calls,
\* onLastDetach has not been invoked before the k-th detach, and after the
\* k-th detach the attached count is 0 and onLastDetach was invoked exactly
\* once.
C2_LastDetachOnce ==
  \A r \in RouterIds :
    (hist[r].att >= 1 /\ ~hist[r].mixed) =>
      /\ hist[r].det < hist[r].att => hist[r].last = 0
      /\ hist[r].det = hist[r].att =>
           routers[r].attached = 0 /\ hist[r].last = 1

\* Two sessions attached to one Router and then both detached.
C2_Witness ==
  \E r \in RouterIds :
    /\ ~hist[r].mixed
    /\ hist[r].att = 2
    /\ hist[r].det = 2
    /\ lastOp.op = "detach" /\ lastOp.router = r /\ lastOp.notified

\* ---------------------------------------------------------------- C3
\* C3: a realm is a key of the registry if and only if a Router of that
\* realm has attached count > 0 or was created and never attached.
C3_RegistryIffLive ==
  \A realm \in Realms :
    realm \in DOMAIN registry <=>
      \E r \in RouterIds :
        /\ routers[r].realm = realm
        /\ routers[r].attached > 0 \/ hist[r].att = 0

\* ---------------------------------------------------------------- C4
\* C4: onLastDetach(router) removes the entry of router.realm only when it
\* maps to exactly that router; otherwise it fails and leaves the registry
\* unchanged.
C4_RemoveOnlyOwnEntry ==
  [][lastOp'.notified =>
       IF Registered(lastOp'.router)
       THEN /\ registry' = RegistryDel(registry, lastOp'.realm)
            /\ lastOp'.error = "none"
       ELSE /\ registry' = registry
            /\ lastOp'.error = "AssertionError"]_vars

\* ---------------------------------------------------------------- C5
\* C5: never two distinct live Routers (registered, or attached count > 0)
\* of one realm, and the Router a session got stays registered until that
\* session attaches.
C5_OneLiveRouterPerRealm ==
  /\ \A r1, r2 \in RouterIds :
       (r1 # r2 /\ routers[r1].realm = routers[r2].realm) =>
         ~(/\ Registered(r1) \/ routers[r1].attached > 0
           /\ Registered(r2) \/ routers[r2].attached > 0)
  /\ \A s \in Sessions : sess[s].pc = "got" => Registered(sess[s].router)

\* ---------------------------------------------------------------- C6
\* C6: as long as no onLastDetach was invoked for a realm, concurrent get
\* calls create at most one Router for it and all of them return that one.
C6_OneRouterCreated ==
  \A realm \in Realms :
    (\A r \in RouterIds : routers[r].realm = realm => hist[r].last = 0) =>
      /\ Cardinality({r \in RouterIds : routers[r].realm = realm}) <= 1
      /\ \A t1, t2 \in Threads :
           (/\ sess[t1].router # 0 /\ sess[t2].router # 0
            /\ sess[t1].realm = realm /\ sess[t2].realm = realm) =>
             sess[t1].router = sess[t2].router

\* ---------------------------------------------------------------- C7
\* C7: with attach and detach interleaving on one Router, the count is never
\* negative, no update is lost (with no attach or detach in progress the
\* count is the number of registered sessions), and onLastDetach is not
\* invoked while another session is attaching or attached.
C7_AtomicCount ==
  \A r \in RouterIds :
    /\ routers[r].attached >= 0
    /\ (\A t \in Threads :
          sess[t].router = r =>
            sess[t].pc \in {"got", "attached", "done", "raised"}) =>
         routers[r].attached = Cardinality(routers[r].broker)
    /\ \A t, u \in Threads :
         (/\ t # u /\ sess[t].router = r /\ sess[u].router = r
          /\ sess[t].pc = "d_notify") =>
           sess[u].pc \notin {"a_dealer", "a_load", "a_store", "attached"}

\* ---------------------------------------------------------------- C8
\* C8: a detach on a Router whose attached count is 0 fails and changes no
\* Router, and the attached count is never negative.
C8_OverDetachFails ==
  /\ [](\A r \in RouterIds : routers[r].attached >= 0)
  /\ [][(/\ lastOp'.op = "detach"
         /\ routers[lastOp'.router].attached = 0) =>
          (lastOp'.error # "none" /\ routers' = routers)]_vars

\* ---------------------------------------------------------------- C9
\* C9: with handlers run one after the other and callers keeping the
\* contract, the attached count of every Router is the number of sessions
\* attached and not yet detached, the number of sessions registered with its
\* broker and with its dealer, is >= 0, and is 0 right after construction.
C9_CountIsAttached ==
  /\ \A r \in RouterIds :
       /\ routers[r].attached = Cardinality(AttachedSessions(r))
       /\ routers[r].attached = Cardinality(routers[r].broker)
       /\ routers[r].attached = Cardinality(routers[r].dealer)
       /\ routers[r].attached >= 0
  /\ lastOp.created => routers[lastOp.router].attached = 0

\* A Router with two sessions attached after a third one has detached.
C9_Witness ==
  \E r \in RouterIds :
    /\ routers[r].attached = 2
    /\ hist[r].det >= 1

\* ---------------------------------------------------------------- C10
\* C10: a get for a realm that an earlier get already served, with no
\* onLastDetach for the realm since, returns the same Router and creates
\* none.
C10_GetMemoizes ==
  [][(lastOp'.op = "get" /\ lastGot[lastOp'.realm] # 0) =>
       /\ lastOp'.router = lastGot[lastOp'.realm]
       /\ ~lastOp'.created
       /\ routers' = routers]_vars

\* A get returned an existing Router that already has a session attached.
C10_Witness ==
  /\ lastOp.op = "get"
  /\ ~lastOp.created
  /\ routers[lastOp.router].attached >= 1
\* ---------------------------------------------------------------- C11
\* C11: the first get for a realm after onLastDetach retired the realm's
\* Router returns a Router that did not exist before, with attached count 0
\* and a broker and dealer that hold no session.
C11_FreshRouterAfterRetire ==
  [][(/\ lastOp'.op = "get"
      /\ lastGot[lastOp'.realm] = 0
      /\ \E r \in RouterIds : routers[r].realm = lastOp'.realm) =>
       /\ lastOp'.created
       /\ lastOp'.router \notin RouterIds
       /\ routers'[lastOp'.router] =
            [realm |-> lastOp'.realm, attached |-> 0,
             broker |-> {}, dealer |-> {}]
       /\ \A r \in RouterIds : routers'[r] = routers[r]]_vars

\* A get created a Router for a realm whose earlier Router was retired after
\* a session had been attached to it.
C11_Witness ==
  /\ lastOp.op = "get"
  /\ lastOp.created
  /\ \E r \in RouterIds :
       /\ r # lastOp.router
       /\ routers[r].realm = lastOp.realm
       /\ hist[r].last >= 1
       /\ hist[r].att >= 1

\* ---------------------------------------------------------------- C12
\* C12: a Router whose attached count returned to 0 and that notified the
\* factory never has a non-zero attached count again.
C12_RetiredStaysUnoccupied ==
  [][\A r \in RouterIds :
       (hist[r].last >= 1 /\ routers[r].attached = 0) =>
         routers'[r].attached = 0]_vars

\* ---------------------------------------------------------------- C13
\* C13: a detach that leaves the attached count > 0 does not invoke
\* onLastDetach and leaves the registry unchanged; a registry entry goes
\* away only in a detach that brings the attached count of a Router of that
\* realm to 0.
C13_OnlyLastDetachRemoves ==
  [][/\ (lastOp'.op = "detach" /\ routers'[lastOp'.router].attached > 0) =>
          (~lastOp'.notified /\ registry' = registry)
     /\ \A realm \in DOMAIN registry \ DOMAIN registry' :
          /\ lastOp'.op = "detach"
          /\ lastOp'.realm = realm
          /\ routers'[lastOp'.router].attached = 0]_vars

\* Of two attached sessions one has detached; the Router is still registered.
C13_Witness ==
  /\ lastOp.op = "detach"
  /\ ~lastOp.notified
  /\ routers[lastOp.router].attached = 1
  /\ hist[lastOp.router].att = 2
  /\ Registered(lastOp.router)

\* ---------------------------------------------------------------- C14
\* C14: authorize returns true and validate returns normally, for every
\* session, uri, action and payload, whatever the state of the Router.
C14_HooksPermissive ==
  /\ lastOp.op = "authorize" =>
       lastOp.result = "True" /\ lastOp.error = "none"
  /\ lastOp.op = "validate" =>
       lastOp.result = "None" /\ lastOp.error = "none"

\* authorize was called on a retired Router by a session that detached.
C14_Witness ==
  /\ lastOp.op = "authorize"
  /\ hist[lastOp.router].last >= 1
  /\ ~Registered(lastOp.router)
  /\ sess[lastOp.session].pc = "done"

\* ---------------------------------------------------------------- C17
\* C17: process (dispatching or raising ProtocolError), authorize and
\* validate change no Router's attached count, do not change the registry
\* and do not invoke onLastDetach; a step that changes either is a get, an
\* attach or a detach.
C17_HooksFrame ==
  [][/\ lastOp'.op \in {"process", "authorize", "validate"} =>
          /\ \A r \in RouterIds : routers'[r].attached = routers[r].attached
          /\ Len(routers') = Len(routers)
          /\ registry' = registry
          /\ ~lastOp'.notified
          /\ hist' = hist
     /\ (registry' # registry \/ routers' # routers) =>
          lastOp'.op \in {"get", "attach", "detach"}]_vars

\* A message was rejected with ProtocolError on a Router with a session
\* attached.
C17_Witness ==
  /\ lastOp.op = "process"
  /\ lastOp.error = "ProtocolError"
  /\ routers[lastOp.router].attached >= 1
  /\ Registered(lastOp.router)

C16_RealmIsolation ==
  [][lastOp'.op \in {"get", "attach", "detach"} =>
       /\ \A realm \in Realms \ {lastOp'.realm} :
            /\ realm \in DOMAIN registry' <=> realm \in DOMAIN registry
            /\ realm \in DOMAIN registry =>
                 registry'[realm] = registry[realm]
       /\ \A r \in RouterIds :
            routers[r].realm # lastOp'.realm => routers'[r] = routers[r]
       /\ (lastOp'.notified /\ lastOp'.error = "none") =>
            /\ lastOp'.realm \in DOMAIN registry
            /\ DOMAIN registry' = DOMAIN registry \ {lastOp'.realm}]_vars

\* A last detach removed its realm while the Router of another realm was
\* registered with a session attached.
C16_Witness ==
  /\ lastOp.notified
  /\ lastOp.error = "none"
  /\ \E r \in RouterIds :
       /\ routers[r].realm # lastOp.realm
       /\ Registered(r)
       /\ routers[r].attached >= 1

\* ---------------------------------------------------------------- C18
\* C18: every detach has removed the session from the broker and the dealer
\* and decremented the count when it returns or raises; when onLastDetach
\* fails its assertion the error reaches the caller of detach, the registry
\* is unchanged and nothing is rolled back.
C18_NoRollback ==
  [][lastOp'.op = "detach" =>
       LET r == lastOp'.router
           s == lastOp'.session
       IN /\ s \notin routers'[r].broker
          /\ s \notin routers'[r].dealer
          /\ routers'[r].attached = routers[r].attached - 1
          /\ lastOp'.notified <=> routers'[r].attached = 0
          /\ lastOp'.error = "AssertionError" <=>
               (lastOp'.notified /\ routers[r].realm \notin DOMAIN registry)
          /\ lastOp'.error = "AssertionError" => registry' = registry]_vars

\* A detach ended with the assertion failure of onLastDetach.
C18_Witness ==
  /\ lastOp.op = "detach"
  /\ lastOp.error = "AssertionError"
  /\ routers[lastOp.router].attached = 0
  /\ lastOp.session \notin routers[lastOp.router].broker

\* ---------------------------------------------------------------- C19
\* C19: every registry entry is keyed by its Router's realm; a Router
\* becomes registered only by the get that creates it and stops being
\* registered only in a step that invokes onLastDetach; a registered Router
\* that was never attached is not removed by an operation on that instance,
\* and a get for its realm returns it.
WasRegistered(r) == r \in RouterIds /\ Registered(r)

C19_RegistryKeys ==
  /\ [](\A k \in DOMAIN registry : routers[registry[k]].realm = k)
  /\ [][\A r \in 1 .. Len(routers') :
          /\ (~WasRegistered(r) /\ Registered(r)') =>
               (lastOp'.op = "get" /\ lastOp'.created /\ lastOp'.router = r)
          /\ (WasRegistered(r) /\ ~Registered(r)') => lastOp'.notified
          /\ (WasRegistered(r) /\ hist[r].att = 0) =>
               /\ ~Registered(r)' => lastOp'.router # r
               /\ (lastOp'.op = "get" /\ lastOp'.realm = routers[r].realm) =>
                    lastOp'.router = r]_vars

\* A get returned a registered Router that was never attached, after the
\* Router of the other realm was retired.
C19_Witness ==
  /\ lastOp.op = "get"
  /\ ~lastOp.created
  /\ hist[lastOp.router].att = 0
  /\ Registered(lastOp.router)
  /\ \E r \in RouterIds : hist[r].last >= 1

====
